---- MODULE Spec2Model ----
(***************************************************************************)
(* A model of the Jack syntax analyzer: the recursive-descent              *)
(* CompilationEngine (src/src/engine.rs) pulling items on demand from the  *)
(* token iterator (src/src/stream_tokenizer.rs) through a peekmore         *)
(* look-ahead queue, and writing open-tag / text / close-tag events to     *)
(* its sink; and of the StreamTokenizer itself, character by character     *)
(* (specification Lexer, at the end of the module).                        *)
(*                                                                         *)
(* The Rust call stack is explicit: `stack` is a sequence of frames, one   *)
(* per active production, each with the position (pc) it resumes at.  A    *)
(* step of a production is one atomic action; leaf functions               *)
(* (write_keyword, write_symbol, ...) are operators applied inside the     *)
(* step that calls them.  Operators transform a machine record m (the      *)
(* state plus the status `st` of the statement sequence executed so far:   *)
(* "ok", "err" = an Err is being returned, "panic" = the thread panicked); *)
(* every operator leaves m alone once st is not "ok", which is Rust's `?`. *)
(***************************************************************************)
EXTENDS Integers, Sequences, FiniteSets, TLC

VARIABLES
    stack,       \* call stack of the engine: frames [fn, pc, next_token]
    buf,         \* PeekMoreIterator.queue: items pulled and not yet consumed
    cursor,      \* PeekMoreIterator.cursor
    yielded,     \* number of tokens the tokenizer has yielded
    mode,        \* tokenizer: "live", "failed" (stuck on a lexical error), "ended"
    open,        \* sink: the elements opened and not yet closed, outermost first
    wellNested,  \* sink: every closing tag so far closed the innermost open element
    emit,        \* sink: the events written by the latest step
    result,      \* "running", or what compile did: "ok", "err", "panic"
    error,       \* the Err value being returned / returned by compile
    dropped,     \* the Err values discarded so far by the is_err() loops
    last,        \* the item the latest self.tokenizer.next() returned
    remaining_text, \* StreamTokenizer.remaining_text, a sequence of characters
    current_index,  \* StreamTokenizer.current_index, in bytes
    iter_times,     \* StreamTokenizer.iter_times
    items,          \* number of items Iterator::next has yielded so far
    source,         \* the text StreamTokenizer::new has read
    ret          \* the latest call of a tokenizer function: [fn, arg, val]

\* The variables of the tokenizer, which the engine's steps leave alone (the
\* engine is analysed against every item sequence a tokenizer can yield).
lexvars == <<remaining_text, current_index, iter_times, items, source, ret>>

vars == <<stack, buf, cursor, yielded, mode, open, wellNested, emit, result,
          error, dropped, last, remaining_text, current_index, iter_times,
          items, source, ret>>

\* Number of tokens in the longest source considered.
MaxTokens == 16

(***************************************************************************)
(* Tokens and iterator items                                               *)
(***************************************************************************)
Keywords ==
    {"class", "constructor", "function", "method", "field", "static", "var",
     "int", "char", "boolean", "void", "true", "false", "null", "this",
     "let", "do", "if", "else", "while", "return"}

Symbols ==
    {"{", "}", "(", ")", "[", "]", ".", ",", ";", "+", "-", "*", "/", "&",
     "|", "<", ">", "=", "~"}

Keyword(v)     == [k |-> "Keyword", v |-> v]
Symbol(v)      == [k |-> "Symbol", v |-> v]
Identifier(v)  == [k |-> "Identifier", v |-> v]
IntConst(v)    == [k |-> "IntConst", v |-> v]
StringConst(v) == [k |-> "StringConst", v |-> v]

\* Option<Result<Token>>: Some(Ok(token)) is the token itself.
SomeErr  == [k |-> "Err", v |-> ""]
NoneItem == [k |-> "None", v |-> ""]
NoToken  == [k |-> "-", v |-> ""]

IsToken(it) == it.k \in {"Keyword", "Symbol", "Identifier", "IntConst", "StringConst"}

Token ==
    {Keyword(v) : v \in Keywords} \cup {Symbol(v) : v \in Symbols}
        \cup {Identifier("x"), IntConst("1"), StringConst("s")}

\* No tokenizer function has been called yet.
NoCall == [fn |-> "", arg |-> <<>>, val |-> NoToken]

\* An error value: its kind, the function that built it (site), the production
\* that was executing (in) at position (at), and the item it was raised on.
\* A discarded error is remembered without its item.
NoError == [kind |-> "none", site |-> "", in |-> "", at |-> 0, tok |-> NoToken]

(***************************************************************************)
(* The machine record                                                      *)
(***************************************************************************)
Cur ==
    [stack |-> stack, buf |-> buf, cursor |-> cursor, yielded |-> yielded,
     mode |-> mode, open |-> open, wellNested |-> wellNested, emit |-> <<>>,
     result |-> result, error |-> error, dropped |-> dropped, last |-> last,
     st |-> "ok"]

\* F(v) with v evaluated once: TLC evaluates an operator's argument wherever
\* the operator's body uses it, a bound variable only when it is bound.
With(v, F(_)) == CHOOSE r \in {F(x) : x \in {v}} : TRUE

\* F(m) while the statements so far succeeded, m itself once one has failed.
Then(m0, F(_)) == With(m0, LAMBDA m : IF m.st = "ok" THEN F(m) ELSE m)

Frame(fn) == [fn |-> fn, pc |-> 1, next_token |-> NoToken]
Top(m) == m.stack[Len(m.stack)]
At(fn) == result = "running" /\ Len(stack) > 0 /\ stack[Len(stack)].fn = fn
Pc == stack[Len(stack)].pc

Goto(m0, pc) == Then(m0, LAMBDA m : [m EXCEPT !.stack[Len(m.stack)].pc = pc])

\* A call whose result is propagated with `?`: the caller resumes at cont.
Call(m0, fn, cont) ==
    Then(m0, LAMBDA m :
        [m EXCEPT !.stack = Append([@ EXCEPT ![Len(@)].pc = cont], Frame(fn))])

\* return Ok(())
Return(m0) == Then(m0, LAMBDA m : [m EXCEPT !.stack = SubSeq(@, 1, Len(@) - 1)])

\* Err(anyhow!(..)) / bail!(..) raised at `site` on item `tok`.
Raise(m0, kind, site, tok) ==
    Then(m0, LAMBDA m :
        [m EXCEPT !.st = "err",
                  !.error = [kind |-> kind, site |-> site, in |-> Top(m).fn,
                             at |-> Top(m).pc, tok |-> tok]])

\* Option::unwrap() on None.
Panic(m0) == Then(m0, LAMBDA m : [m EXCEPT !.st = "panic"])

(***************************************************************************)
(* The sink                                                                *)
(***************************************************************************)
Ev(t, v) == [t |-> t, v |-> v]

write(m0, value) ==
    Then(m0, LAMBDA m : [m EXCEPT !.emit = Append(@, Ev("text", value))])

write_opening_tag(m0, tag_name) ==
    Then(m0, LAMBDA m :
        [m EXCEPT !.emit = Append(@, Ev("open", tag_name)),
                  !.open = IF m.wellNested THEN Append(@, tag_name) ELSE @])

write_closing_tag(m0, tag_name) ==
    Then(m0, LAMBDA m :
        LET n == Len(m.open)
            matches == m.wellNested /\ n > 0 /\ m.open[n] = tag_name
        IN [m EXCEPT !.emit = Append(@, Ev("close", tag_name)),
                     !.open = IF matches THEN SubSeq(@, 1, n - 1) ELSE <<>>,
                     !.wellNested = matches])

write_tagged(m, token_name, value) ==
    write_closing_tag(write(write_opening_tag(m, token_name), value), token_name)

(***************************************************************************)
(* The tokenizer as the engine sees it, and the peekmore queue             *)
(***************************************************************************)
\* What Iterator::next can return: any token while the source lasts, a
\* lexical error (the cursor does not move, so the error repeats), or None.
TokenizerNext ==
    CASE mode = "ended"  -> {NoneItem}
      [] mode = "failed" -> {SomeErr}
      [] OTHER -> (IF yielded < MaxTokens THEN Token ELSE {}) \cup {SomeErr, NoneItem}

Pulled(m, it) ==
    [m EXCEPT !.buf = Append(@, it),
              !.yielded = IF IsToken(it) THEN @ + 1 ELSE @,
              !.mode = CASE it = SomeErr -> "failed"
                         [] it = NoneItem -> "ended"
                         [] OTHER -> @]

\* The items a step that needs `need` queued items may pull (at most one).
Pulls(need) == IF Len(buf) >= need THEN {NoToken} ELSE TokenizerNext

Begin(it, need) == IF Len(buf) >= need THEN Cur ELSE Pulled(Cur, it)

\* PeekMoreIterator::peek, ::advance_cursor and ::next (item, state after).
peek(m) == m.buf[m.cursor + 1]
advance_cursor(m) == [m EXCEPT !.cursor = @ + 1]
next(m) == Head(m.buf)
\* A slip: taking the front item leaves the cursor where it was.
consumed_keeping_cursor(m0) ==
    With(m0, LAMBDA m : [m EXCEPT !.buf = Tail(@), !.last = Head(m.buf)])

consumed(m0) ==
    With(m0, LAMBDA m :
        [m EXCEPT !.buf = Tail(@), !.cursor = IF @ > 0 THEN @ - 1 ELSE 0,
                  !.last = Head(m.buf)])

(***************************************************************************)
(* Error propagation                                                       *)
(***************************************************************************)
\* The three loops that test `.is_err()` and break instead of using `?`.
IsCatch(f) ==
    \/ f.fn = "write_class" /\ f.pc \in {4, 5}
    \/ f.fn = "write_statements" /\ f.pc = 2

\* An Err travels up through every `?` to the innermost is_err() loop, which
\* drops it and goes on after the loop; with no such loop compile returns it.
\* A panic unwinds the whole thread.
Settle(m0) ==
    With(m0, LAMBDA m :
        CASE m.st = "panic" -> [m EXCEPT !.stack = <<>>, !.result = "panic"]
          [] m.st = "err" ->
                LET S == {i \in 1..(Len(m.stack) - 1) : IsCatch(m.stack[i])}
                IN IF S = {}
                   THEN [m EXCEPT !.stack = <<>>, !.result = "err"]
                   ELSE LET i == CHOOSE j \in S : \A l \in S : l <= j
                        IN [m EXCEPT
                              !.stack = [SubSeq(@, 1, i) EXCEPT ![i].pc = @ + 1],
                              !.dropped = @ \cup {[m.error EXCEPT !.tok = NoToken]},
                              !.error = NoError]
          [] OTHER -> m)

Commit(m0) ==
    \E m \in {Settle(m0)} :
       /\ stack' = m.stack
       /\ buf' = m.buf
       /\ cursor' = m.cursor
       /\ yielded' = m.yielded
       /\ mode' = m.mode
       /\ open' = m.open
       /\ wellNested' = m.wellNested
       /\ emit' = m.emit
       /\ result' = m.result
       /\ error' = m.error
       /\ dropped' = m.dropped
       /\ last' = m.last
       /\ UNCHANGED lexvars

(***************************************************************************)
(* Leaf functions                                                          *)
(***************************************************************************)
\* self.tokenizer.next().unwrap()? followed by the test `ok` on the token.
Expect(m0, site, ok(_), tag, value(_)) ==
    Then(m0, LAMBDA m :
        With(next(m), LAMBDA token :
            CASE token = NoneItem -> Panic(consumed(m))
              [] token = SomeErr -> Raise(consumed(m), "lexical", site, token)
              [] ok(token) -> write_tagged(consumed(m), tag, value(token))
              [] OTHER -> Raise(consumed(m), "syntax", site, token)))

write_identifier(m) ==
    Expect(m, "write_identifier", LAMBDA token : token.k = "Identifier",
           "identifier", LAMBDA token : token.v)

write_keyword(m, keyword) ==
    Expect(m, "write_keyword", LAMBDA token : token = Keyword(keyword),
           "keyword", LAMBDA token : keyword)

write_symbol(m, symbol) ==
    Expect(m, "write_symbol", LAMBDA token : token = Symbol(symbol),
           "symbol", LAMBDA token : symbol)

is_operator(op) == op \in {"+", "-", "*", "/", "&", "|", "<", ">", "="}

write_operator(m) ==
    Expect(m, "write_operator",
           LAMBDA token : token.k = "Symbol" /\ is_operator(token.v),
           "symbol", LAMBDA token : token.v)

write_var_name(m) == write_identifier(m)

write_subroutine_name(m) == write_identifier(m)

write_const(m0) ==
    Then(m0, LAMBDA m :
        With(next(m), LAMBDA token :
            CASE token.k = "IntConst" ->
                    write_tagged(consumed(m), "integerConstant", token.v)
              [] token.k = "StringConst" ->
                    write_tagged(consumed(m), "stringConstant", token.v)
              [] OTHER -> consumed(m)))

write_keyword_constant(m0) ==
    Then(m0, LAMBDA m :
        With(next(m), LAMBDA token :
            CASE token = SomeErr ->
                    Raise(consumed(m), "lexical", "write_keyword_constant", token)
              [] token.k = "Keyword" /\ token.v \in {"true", "false", "null", "this"} ->
                    write(consumed(m), token.v)
              [] OTHER ->
                    Raise(consumed(m), "syntax", "write_keyword_constant", token)))

write_type(m0) ==
    Then(m0, LAMBDA m :
        With(peek(m), LAMBDA token :
            CASE ~IsToken(token) -> m
              [] token.k = "Keyword" /\ token.v \in {"int", "char", "boolean"} ->
                    write_keyword(m, token.v)
              [] token.k = "Identifier" -> write_identifier(m)
              [] OTHER -> Raise(m, "syntax", "write_type", token)))

(***************************************************************************)
(* Predicates on the look-ahead token, as the productions test them        *)
(***************************************************************************)
IsKeyword(token, v) == token = Keyword(v)
IsSymbol(token, v)  == token = Symbol(v)

\* Some(Ok(Token::Symbol(s))) if s != &x
SymbolOtherThan(token, v) == token.k = "Symbol" /\ token.v # v

\* A slip: peek without advance_cursor, which looks at the identifier itself.
LookAtIdentifier(m0) ==
    With(m0, LAMBDA m : [m EXCEPT !.stack[Len(m.stack)].next_token = peek(m)])

\* write_term_identifier: look one token past the identifier, keeping it.
LookPastIdentifier(m0) ==
    With(advance_cursor(m0), LAMBDA m :
        [m EXCEPT !.stack[Len(m.stack)].next_token = peek(m)])

\* A slip: only `(` is taken to start a call.
IsCallHeadParenOnly(token) == IsSymbol(token, "(")

\* write_term_identifier: the identifier heads a subroutine call.
IsCallHead(token) == IsSymbol(token, "(") \/ IsSymbol(token, ".")

\* write_return_statement: an expression follows `return`.
ReturnHasExpression(token) == SymbolOtherThan(token, ";")

\* write_if_statement: an else clause follows.
HasElse(token) == IsKeyword(token, "else")

(***************************************************************************)
(* Productions: one action each, one step per statement of the function    *)
(***************************************************************************)
compile ==
    /\ At("compile")
    /\ Commit(IF Pc = 1 THEN Call(Cur, "write_class", 2)
              ELSE [Return(Cur) EXCEPT !.result = "ok"])

write_class ==
    /\ At("write_class")
    /\ \E it \in Pulls(IF Pc \in {4, 5} THEN 0 ELSE 1) :
        LET m == Begin(it, IF Pc \in {4, 5} THEN 0 ELSE 1)
        IN Commit(
            CASE Pc = 1 -> Goto(write_keyword(write_opening_tag(m, "class"), "class"), 2)
              [] Pc = 2 -> Goto(write_identifier(m), 3)
              [] Pc = 3 -> Goto(write_symbol(m, "{"), 4)
              [] Pc = 4 -> Call(m, "write_class_var_dec", 4)
              [] Pc = 5 -> Call(m, "write_subroutine_dec", 5)
              [] Pc = 6 -> Return(write_closing_tag(write_symbol(m, "}"), "class")))

write_class_var_dec ==
    /\ At("write_class_var_dec")
    /\ \E it \in Pulls(1) :
        LET m == Begin(it, 1)
            token == peek(m)
        IN Commit(
            CASE Pc = 1 ->
                    LET m1 == write_opening_tag(m, "classVarDec")
                    IN IF IsKeyword(token, "static")
                       THEN Goto(write_keyword(m1, "static"), 2)
                       ELSE IF IsKeyword(token, "field")
                       THEN Goto(write_keyword(m1, "field"), 2)
                       ELSE Raise(write_closing_tag(m1, "classVarDec"), "syntax",
                                  "write_class_var_dec", token)
              [] Pc = 2 -> Goto(write_type(m), 3)
              [] Pc = 3 -> Goto(write_var_name(m), 4)
              [] Pc = 4 ->
                    IF SymbolOtherThan(token, ";")
                    THEN Goto(write_symbol(m, ","), 5)
                    ELSE Return(write_closing_tag(write_symbol(m, ";"), "classVarDec"))
              [] Pc = 5 -> Goto(write_var_name(m), 4))

write_subroutine_dec ==
    /\ At("write_subroutine_dec")
    /\ \E it \in Pulls(IF Pc \in {5, 7, 8} THEN 0 ELSE 1) :
        LET m == Begin(it, IF Pc \in {5, 7, 8} THEN 0 ELSE 1)
            token == peek(m)
        IN Commit(
            CASE Pc = 1 ->
                    LET m1 == write_opening_tag(m, "subroutineDec")
                    IN IF IsKeyword(token, "constructor")
                       THEN Goto(write_keyword(m1, "constructor"), 2)
                       ELSE IF IsKeyword(token, "method")
                       THEN Goto(write_keyword(m1, "method"), 2)
                       ELSE IF IsKeyword(token, "function")
                       THEN Goto(write_keyword(m1, "function"), 2)
                       ELSE Raise(write_closing_tag(m1, "subroutineDec"), "syntax",
                                  "write_subroutine_dec", token)
              [] Pc = 2 ->
                    IF ~IsToken(token) THEN Goto(m, 3)
                    ELSE IF IsKeyword(token, "void")
                    THEN Goto(write_keyword(m, "void"), 3)
                    ELSE Goto(write_type(m), 3)
              [] Pc = 3 -> Goto(write_subroutine_name(m), 4)
              [] Pc = 4 -> Goto(write_symbol(m, "("), 5)
              [] Pc = 5 -> Call(m, "write_parameter_list", 6)
              [] Pc = 6 -> Goto(write_symbol(m, ")"), 7)
              [] Pc = 7 -> Call(m, "write_subroutine_body", 8)
              [] Pc = 8 -> Return(write_closing_tag(m, "subroutineDec")))

write_parameter_list ==
    /\ At("write_parameter_list")
    /\ \E it \in Pulls(1) :
        LET m == Begin(it, 1)
            token == peek(m)
            loop == IF SymbolOtherThan(token, ")")
                    THEN Goto(write_symbol(m, ","), 4)
                    ELSE Return(write_closing_tag(m, "parameterList"))
        IN Commit(
            CASE Pc = 1 ->
                    LET m1 == write_opening_tag(m, "parameterList")
                    IN IF token.k = "Symbol"
                       THEN IF token.v # ")"
                            THEN Goto(write_type(m1), 2)
                            ELSE Return(write_closing_tag(m1, "parameterList"))
                       ELSE Goto(m1, 3)
              [] Pc = 2 -> Goto(write_var_name(m), 3)
              [] Pc = 3 -> loop
              [] Pc = 4 -> Goto(write_type(m), 5)
              [] Pc = 5 -> Goto(write_var_name(m), 3))

write_subroutine_body ==
    /\ At("write_subroutine_body")
    /\ \E it \in Pulls(1) :
        LET m == Begin(it, 1)
            token == peek(m)
        IN Commit(
            CASE Pc = 1 ->
                    Goto(write_symbol(write_opening_tag(m, "subroutineBody"), "{"), 2)
              [] Pc = 2 ->
                    IF IsKeyword(token, "var")
                    THEN Call(m, "write_var_dec", 2)
                    ELSE Call(m, "write_statements", 3)
              [] Pc = 3 ->
                    Return(write_closing_tag(write_symbol(m, "}"), "subroutineBody")))

write_var_dec ==
    /\ At("write_var_dec")
    /\ \E it \in Pulls(1) :
        LET m == Begin(it, 1)
            token == peek(m)
        IN Commit(
            CASE Pc = 1 -> Goto(write_keyword(write_opening_tag(m, "varDec"), "var"), 2)
              [] Pc = 2 -> Goto(write_type(m), 3)
              [] Pc = 3 ->
                    IF IsSymbol(token, ";")
                    THEN Return(write_closing_tag(write_symbol(m, ";"), "varDec"))
                    ELSE Goto(write_var_name(m), 4)
              [] Pc = 4 ->
                    IF IsSymbol(token, ",")
                    THEN Goto(write_symbol(m, ","), 3)
                    ELSE Goto(m, 3))

write_statements ==
    /\ At("write_statements")
    /\ Commit(
        CASE Pc = 1 -> Goto(write_opening_tag(Cur, "statements"), 2)
          [] Pc = 2 -> Call(Cur, "write_statement", 2)
          [] Pc = 3 -> Return(write_closing_tag(Cur, "statements")))

write_statement ==
    /\ At("write_statement")
    /\ \E it \in Pulls(IF Pc = 1 THEN 1 ELSE 0) :
        LET m == Begin(it, IF Pc = 1 THEN 1 ELSE 0)
            token == peek(m)
        IN Commit(
            IF Pc = 2 \/ ~IsToken(token) THEN Return(m)
            ELSE CASE IsKeyword(token, "let") -> Call(m, "write_let_statement", 2)
                   [] IsKeyword(token, "if") -> Call(m, "write_if_statement", 2)
                   [] IsKeyword(token, "while") -> Call(m, "write_while_statement", 2)
                   [] IsKeyword(token, "do") -> Call(m, "write_do_statement", 2)
                   [] IsKeyword(token, "return") -> Call(m, "write_return_statement", 2)
                   [] OTHER -> Raise(m, "syntax", "write_statement", token))

write_let_statement ==
    /\ At("write_let_statement")
    /\ \E it \in Pulls(IF Pc \in {4, 7} THEN 0 ELSE 1) :
        LET m == Begin(it, IF Pc \in {4, 7} THEN 0 ELSE 1)
            token == peek(m)
        IN Commit(
            CASE Pc = 1 ->
                    Goto(write_keyword(write_opening_tag(m, "letStatement"), "let"), 2)
              [] Pc = 2 -> Goto(write_identifier(m), 3)
              [] Pc = 3 ->
                    IF IsSymbol(token, "[")
                    THEN Goto(write_symbol(m, "["), 4)
                    ELSE Goto(write_symbol(m, "="), 7)
              [] Pc = 4 -> Call(m, "write_expression", 5)
              [] Pc = 5 -> Goto(write_symbol(m, "]"), 6)
              [] Pc = 6 -> Goto(write_symbol(m, "="), 7)
              [] Pc = 7 -> Call(m, "write_expression", 8)
              [] Pc = 8 ->
                    Return(write_closing_tag(write_symbol(m, ";"), "letStatement")))

write_if_statement ==
    /\ At("write_if_statement")
    /\ \E it \in Pulls(IF Pc \in {3, 6, 9} THEN 0 ELSE 1) :
        LET m == Begin(it, IF Pc \in {3, 6, 9} THEN 0 ELSE 1)
            token == peek(m)
        IN Commit(
            CASE Pc = 1 ->
                    Goto(write_keyword(write_opening_tag(m, "ifStatement"), "if"), 2)
              [] Pc = 2 -> Goto(write_symbol(m, "("), 3)
              [] Pc = 3 -> Call(m, "write_expression", 4)
              [] Pc = 4 -> Goto(write_symbol(m, ")"), 5)
              [] Pc = 5 -> Goto(write_symbol(m, "{"), 6)
              [] Pc = 6 -> Call(m, "write_statements", 7)
              [] Pc = 7 -> Goto(write_symbol(m, "}"), 8)
              [] Pc = 8 ->
                    IF HasElse(token)
                    THEN Goto(write_symbol(m, "{"), 9)
                    ELSE Return(write_closing_tag(m, "ifStatement"))
              [] Pc = 9 -> Call(m, "write_statements", 10)
              [] Pc = 10 ->
                    Return(write_closing_tag(write_symbol(m, "}"), "ifStatement")))

write_while_statement ==
    /\ At("write_while_statement")
    /\ \E it \in Pulls(IF Pc \in {3, 6} THEN 0 ELSE 1) :
        LET m == Begin(it, IF Pc \in {3, 6} THEN 0 ELSE 1)
        IN Commit(
            CASE Pc = 1 ->
                    Goto(write_keyword(write_opening_tag(m, "whileStatement"), "while"), 2)
              [] Pc = 2 -> Goto(write_symbol(m, "("), 3)
              [] Pc = 3 -> Call(m, "write_expression", 4)
              [] Pc = 4 -> Goto(write_symbol(m, ")"), 5)
              [] Pc = 5 -> Goto(write_symbol(m, "{"), 6)
              [] Pc = 6 -> Call(m, "write_statements", 7)
              [] Pc = 7 ->
                    Return(write_closing_tag(write_symbol(m, "}"), "whileStatement")))

write_do_statement ==
    /\ At("write_do_statement")
    /\ \E it \in Pulls(IF Pc = 2 THEN 0 ELSE 1) :
        LET m == Begin(it, IF Pc = 2 THEN 0 ELSE 1)
        IN Commit(
            CASE Pc = 1 ->
                    Goto(write_keyword(write_opening_tag(m, "doStatement"), "do"), 2)
              [] Pc = 2 -> Call(m, "write_subroutine_call", 3)
              [] Pc = 3 ->
                    Return(write_closing_tag(write_symbol(m, ";"), "doStatement")))

write_return_statement ==
    /\ At("write_return_statement")
    /\ \E it \in Pulls(1) :
        LET m == Begin(it, 1)
            token == peek(m)
        IN Commit(
            CASE Pc = 1 ->
                    Goto(write_keyword(write_opening_tag(m, "returnStatement"), "return"), 2)
              [] Pc = 2 ->
                    IF ReturnHasExpression(token)
                    THEN Call(m, "write_expression", 3)
                    ELSE Return(write_closing_tag(write_symbol(m, ";"), "returnStatement"))
              [] Pc = 3 ->
                    Return(write_closing_tag(write_symbol(m, ";"), "returnStatement")))

write_expression_list ==
    /\ At("write_expression_list")
    /\ \E it \in Pulls(IF Pc = 1 THEN 0 ELSE 1) :
        LET m == Begin(it, IF Pc = 1 THEN 0 ELSE 1)
            token == peek(m)
        IN Commit(
            CASE Pc = 1 -> Goto(write_opening_tag(m, "expressionList"), 2)
              [] Pc = 2 ->
                    IF IsSymbol(token, ")")
                    THEN Return(write_closing_tag(m, "expressionList"))
                    ELSE Call(m, "write_expression", 3)
              [] Pc = 3 ->
                    IF IsSymbol(token, ",")
                    THEN Goto(write_symbol(m, ","), 2)
                    ELSE Goto(m, 2))

write_expression ==
    /\ At("write_expression")
    /\ \E it \in Pulls(IF Pc = 1 THEN 0 ELSE 1) :
        LET m == Begin(it, IF Pc = 1 THEN 0 ELSE 1)
            token == peek(m)
        IN Commit(
            CASE Pc = 1 -> Call(write_opening_tag(m, "expression"), "write_term", 2)
              [] Pc = 2 ->
                    IF token.k = "Symbol" /\ is_operator(token.v)
                    THEN Call(write_operator(m), "write_term", 2)
                    ELSE Return(write_closing_tag(m, "expression")))

write_subroutine_call ==
    /\ At("write_subroutine_call")
    /\ \E it \in Pulls(IF Pc = 5 THEN 0 ELSE 1) :
        LET m == Begin(it, IF Pc = 5 THEN 0 ELSE 1)
            token == peek(m)
        IN Commit(
            CASE Pc = 1 -> Goto(write_identifier(m), 2)
              [] Pc = 2 ->
                    IF IsSymbol(token, ".")
                    THEN Goto(write_symbol(m, "."), 3)
                    ELSE Goto(write_symbol(m, "("), 5)
              [] Pc = 3 -> Goto(write_identifier(m), 4)
              [] Pc = 4 -> Goto(write_symbol(m, "("), 5)
              [] Pc = 5 -> Call(m, "write_expression_list", 6)
              [] Pc = 6 -> Return(write_symbol(m, ")")))

write_term ==
    /\ At("write_term")
    /\ \E it \in Pulls(IF Pc \in {2, 3} THEN 0 ELSE 1) :
        LET m == Begin(it, IF Pc \in {2, 3} THEN 0 ELSE 1)
            token == peek(m)
            close(m1) == Return(write_closing_tag(m1, "term"))
        IN Commit(
            CASE Pc = 1 ->
                    LET m1 == write_opening_tag(m, "term")
                    IN CASE ~IsToken(token) -> close(m1)
                         [] token.k \in {"IntConst", "StringConst"} ->
                                close(write_const(m1))
                         [] IsKeyword(token, "function") ->
                                close(write_keyword(m1, "function"))
                         [] IsKeyword(token, "method") ->
                                close(write_keyword(m1, "method"))
                         [] token.k = "Keyword" -> close(write_keyword_constant(m1))
                         [] token.k = "Identifier" ->
                                Call(m1, "write_term_identifier", 3)
                         [] IsSymbol(token, "(") -> Goto(write_symbol(m1, "("), 2)
                         [] IsSymbol(token, "-") -> close(write_symbol(m1, "-"))
                         [] IsSymbol(token, "~") -> close(write_symbol(m1, "~"))
                         [] OTHER -> Call(m1, "write_subroutine_call", 3)
              [] Pc = 2 -> Call(m, "write_expression", 4)
              [] Pc = 3 -> close(m)
              [] Pc = 4 -> close(write_symbol(m, "(")))

write_term_identifier ==
    /\ At("write_term_identifier")
    /\ \E it \in Pulls(IF Pc = 1 THEN 2 ELSE IF Pc \in {4, 6} THEN 0 ELSE 1) :
        LET m == Begin(it, IF Pc = 1 THEN 2 ELSE IF Pc \in {4, 6} THEN 0 ELSE 1)
        IN Commit(
            CASE Pc = 1 ->
                    LET m1 == LookPastIdentifier(m)
                    IN IF IsCallHead(Top(m1).next_token)
                       THEN Call(m1, "write_subroutine_call", 6)
                       ELSE Goto(m1, 2)
              [] Pc = 2 -> Goto(write_var_name(m), 3)
              [] Pc = 3 ->
                    LET next_token == peek(m)
                    IN CASE IsSymbol(next_token, "[") -> Goto(write_symbol(m, "["), 4)
                         [] next_token = SomeErr ->
                                Raise(m, "syntax", "write_term_identifier", next_token)
                         [] OTHER -> Return(m)
              [] Pc = 4 -> Call(m, "write_expression", 5)
              [] Pc = 5 -> Return(write_symbol(m, "]"))
              [] Pc = 6 -> Return(m))

(***************************************************************************)
(* The specification                                                       *)
(***************************************************************************)
\* The engine as CompilationEngine::new leaves it, compile about to start.
EngineInit ==
    /\ stack = <<Frame("compile")>>
    /\ buf = <<>>
    /\ cursor = 0
    /\ yielded = 0
    /\ mode = "live"
    /\ open = <<>>
    /\ wellNested = TRUE
    /\ emit = <<>>
    /\ result = "running"
    /\ error = NoError
    /\ dropped = {}
    /\ last = NoToken

Init ==
    /\ EngineInit
    /\ remaining_text = <<>>
    /\ current_index = 0
    /\ iter_times = 0
    /\ items = 0
    /\ source = <<>>
    /\ ret = NoCall

Next ==
    \/ compile
    \/ write_class
    \/ write_class_var_dec
    \/ write_subroutine_dec
    \/ write_parameter_list
    \/ write_subroutine_body
    \/ write_var_dec
    \/ write_statements
    \/ write_statement
    \/ write_let_statement
    \/ write_if_statement
    \/ write_while_statement
    \/ write_do_statement
    \/ write_return_statement
    \/ write_expression_list
    \/ write_expression
    \/ write_subroutine_call
    \/ write_term
    \/ write_term_identifier

Spec == Init /\ [][Next]_vars

\* The program is one thread: while compile has not returned it takes its
\* next step.
FairSpec == Spec /\ WF_vars(Next)

(***************************************************************************)
(* Properties                                                              *)
(***************************************************************************)
Returned == result # "running"

\* The frame that called the running production.
Caller == stack[Len(stack) - 1]

\* A failed expectation of a keyword, symbol or identifier.  (The errors that
\* only say "no item starts here" have the sites write_class_var_dec,
\* write_subroutine_dec and write_statement, and are raised before the item
\* consumes a token.)
IsTerminalMismatch(e) ==
    /\ e.kind = "syntax"
    /\ e.site \in {"write_keyword", "write_symbol", "write_identifier"}

\* C1: whenever compile returns success, the tag events written to the sink
\* are balanced and properly nested.
C1_BalancedOnSuccess == result = "ok" => (wellNested /\ open = <<>>)

\* C2: compile terminates: for every source it returns after finitely many
\* steps.
C2_CompileTerminates == <>Returned

\* C3: once a classVarDec, subroutineDec or statement has consumed its first
\* token, a terminal-match failure inside it makes compile return an error:
\* compile never succeeds after such a failure.
C3_InnerFailureIsFatal ==
    result = "ok" => \A e \in dropped : ~IsTerminalMismatch(e)

\* The identifier expectation of a let statement has failed.
LetNameFailure(e) ==
    /\ e.kind = "syntax" /\ e.site = "write_identifier"
    /\ e.in = "write_let_statement" /\ e.at = 2

\* C4: when a let statement lacks its variable name, the error compile
\* returns is that identifier-expectation failure; it is not discarded so
\* that the engine closes the statement list and parses on.
C4_LetWithoutNameIsReported ==
    /\ \A e \in dropped : ~LetNameFailure(e)
    /\ (result \in {"ok", "err"} /\ \E e \in dropped : LetNameFailure(e))
            => (result = "err" /\ LetNameFailure(error))

\* C5: a required terminal requested from an exhausted stream makes compile
\* return a syntax error as its value; compile never panics.
C5_ExhaustedStreamIsAnError == result # "panic"

\* C6: once the tokenizer has yielded a lexical error to the engine, compile
\* returns an error.
C6_LexicalErrorPropagates == (mode = "failed") ~> (result = "err")

\* C9: an `else` met after the closing brace of an if statement is consumed
\* and emitted as a keyword inside the ifStatement, which goes on with the
\* braced statement list.
C9_ElseAccepted ==
    [][(At("write_if_statement") /\ Pc = 8 /\ last' = Keyword("else"))
        => (/\ Ev("text", "else") \in {emit'[i] : i \in 1..Len(emit')}
            /\ Len(stack') = Len(stack)
            /\ stack'[Len(stack')].fn = "write_if_statement")]_vars

\* C10: in a return statement an expression is parsed whenever the token
\* after `return` is not `;`: the step after `return` calls write_expression
\* unless that token is `;`, in which case it consumes the `;`.
C10_ReturnExpression ==
    [][(At("write_return_statement") /\ Pc = 2)
        => IF last' = Symbol(";") /\ buf' = <<>>
           THEN Len(stack') = Len(stack) - 1
           ELSE /\ Len(stack') = Len(stack) + 1
                /\ stack'[Len(stack')].fn = "write_expression"]_vars

(***************************************************************************)
(* The identifier-in-term disambiguation                                   *)
(***************************************************************************)
\* write_term_identifier has decided for a variable reference / for a
\* subroutine call, and the identifier is about to be written.
InVariableBranch == At("write_term_identifier") /\ Pc = 2

InCallBranch ==
    /\ At("write_subroutine_call") /\ Pc = 1
    /\ Caller.fn = "write_term_identifier"

\* The write_term_identifier frame of the decision.
Deciding == IF InVariableBranch THEN stack[Len(stack)] ELSE Caller

\* There is an enclosing variable reference whose index expression is being
\* parsed.
InsideIndex ==
    \E i \in 1..Len(stack) :
        stack[i].fn = "write_term_identifier" /\ stack[i].pc = 5

\* C7: at the identifier-in-term disambiguation the peek consumes nothing:
\* after the decision the identifier is still queued in front of the peeked
\* token; the next step, in either branch, consumes the identifier and emits
\* it exactly once without pulling; and the peeked token is then at the front
\* of the queue with the cursor reset, every consumption taking the front.
C7_PeekKeepsIdentifier ==
    /\ []((InVariableBranch \/ InCallBranch) =>
            /\ Len(buf) = 2 /\ cursor = 1
            /\ buf[1].k = "Identifier"
            /\ buf[2] = Deciding.next_token)
    /\ [][(InVariableBranch \/ InCallBranch) =>
            /\ buf' = <<Deciding.next_token>> /\ cursor' = 0
            /\ yielded' = yielded
            /\ last' = buf[1]
            /\ emit' = <<Ev("open", "identifier"), Ev("text", buf[1].v),
                         Ev("close", "identifier")>>]_vars
    /\ [][Len(buf') < Len(buf) => (last' = Head(buf) /\ buf' = Tail(buf))]_vars

\* Both branches at once: the call a.b( .. ) written inside the index of a
\* variable reference, its identifier consumed and the peeked token next.
C7_Witness ==
    /\ At("write_subroutine_call") /\ Pc = 2
    /\ Caller.fn = "write_term_identifier"
    /\ buf = <<Caller.next_token>>
    /\ last.k = "Identifier"
    /\ InsideIndex

\* C8: a term that starts with an identifier is parsed as a subroutine call
\* exactly when the token after the identifier is `(` or `.`; otherwise as a
\* variable reference, which goes on with `[` expression `]` exactly when the
\* token after the identifier is `[`.
C8_TermIdentifierDispatch ==
    /\ [](InVariableBranch =>
            buf[1].k = "Identifier" /\ buf[2] \notin {Symbol("("), Symbol(".")})
    /\ [](InCallBranch =>
            buf[1].k = "Identifier" /\ buf[2] \in {Symbol("("), Symbol(".")})
    /\ [][(At("write_term_identifier") /\ Pc = 3) =>
            IF Head(buf) = Symbol("[")
            THEN /\ Len(stack') = Len(stack)
                 /\ stack'[Len(stack')].pc = 4
                 /\ last' = Symbol("[")
            ELSE Len(stack') < Len(stack) /\ buf' = buf]_vars
    /\ [][(At("write_term_identifier") /\ Pc = 4) =>
            /\ Len(stack') = Len(stack) + 1
            /\ stack'[Len(stack')].fn = "write_expression"]_vars
    /\ [][(At("write_term_identifier") /\ Pc = 5) =>
            /\ Len(stack') < Len(stack)
            /\ (Len(stack') = Len(stack) - 1) = (last' = Symbol("]"))]_vars

\* A qualified call met inside the index of a variable reference.
C8_Witness ==
    /\ InCallBranch
    /\ buf[2] = Symbol(".")
    /\ \E i \in 1..Len(stack) :
        /\ stack[i].fn = "write_term_identifier" /\ stack[i].pc = 5
        /\ stack[i].next_token = Symbol("[")

(***************************************************************************)
(* The forms of the productions                                            *)
(***************************************************************************)
\* The event e is among the events s of a step.
EvIn(e, s) == \E i \in 1..Len(s) : s[i] = e

\* The running production is still running after the step.
Continues ==
    /\ Len(stack') = Len(stack)
    /\ stack'[Len(stack')].fn = stack[Len(stack)].fn

\* The token a step has looked at first: the one it consumed, or else the
\* one it left at the front of the queue.
Looked == IF buf = <<>> THEN last ELSE Head(buf)

\* A token that starts a type / that can only start an expression.
StartsType(t) ==
    \/ t.k = "Keyword" /\ t.v \in {"int", "char", "boolean"}
    \/ t.k = "Identifier"

StartsExpression(t) == t.k \in {"Identifier", "IntConst", "StringConst"}

\* C11: a parameter list that starts with a type is accepted: write_parameter_list
\* consumes the type and emits it inside the parameterList element and goes
\* on with the name; an empty list (`)` next) is emitted as an empty
\* parameterList element and accepted, the `)` left to the caller.
C11_ParameterListAccepted ==
    [][(At("write_parameter_list") /\ Pc = 1) =>
        /\ StartsType(Looked') =>
                /\ buf' = <<>>
                /\ emit' = <<Ev("open", "parameterList"),
                             Ev("open", IF last'.k = "Keyword" THEN "keyword"
                                                                ELSE "identifier"),
                             Ev("text", last'.v),
                             Ev("close", IF last'.k = "Keyword" THEN "keyword"
                                                                 ELSE "identifier")>>
                /\ Continues
        /\ Looked' = Symbol(")") =>
                /\ buf' = <<Symbol(")")>>
                /\ emit' = <<Ev("open", "parameterList"),
                             Ev("close", "parameterList")>>
                /\ Len(stack') = Len(stack) - 1]_vars

\* C12: in a term `(` expression .. the token after the expression closes
\* the term exactly when it is `)`.
C12_ParenthesizedTerm ==
    [][(At("write_term") /\ Pc = 4) =>
        (EvIn(Ev("close", "term"), emit') <=> last' = Symbol(")"))]_vars

\* C13: a term that starts with `-` or `~` goes on with a nested term: the
\* step that consumes the unary operator calls write_term and leaves the
\* term element open for the operand.
C13_UnaryOperand ==
    [][(/\ At("write_term") /\ Pc = 1
        /\ last' \in {Symbol("-"), Symbol("~")}
        /\ EvIn(Ev("open", "symbol"), emit')) =>
            /\ ~EvIn(Ev("close", "term"), emit')
            /\ Len(stack') = Len(stack) + 1
            /\ stack'[Len(stack')].fn = "write_term"]_vars

\* C14: a varDec ends with `;` only directly after a variable name (the
\* token before the `;` is an identifier, neither the type keyword nor a
\* comma), and after a name that is not followed by a comma no further name
\* is taken.
C14_VarDecForm ==
    [][At("write_var_dec") =>
        /\ (Pc = 3 /\ EvIn(Ev("close", "varDec"), emit')) => last.k = "Identifier"
        /\ (Pc = 4 /\ buf' # <<>> /\ Head(buf').k = "Identifier") => ~Continues]_vars

\* The token ends a term (so that the expression before the step is not one
\* that stops at an operator).
EndsTerm(t) == t.k # "Symbol" \/ t.v \in {")", "]"}

\* C15: an expressionList does not end directly after a comma, and after an
\* expression that is not followed by a comma no further expression is
\* taken.
C15_ExpressionListForm ==
    [][At("write_expression_list") =>
        /\ (Pc = 2 /\ EvIn(Ev("close", "expressionList"), emit'))
                => last # Symbol(",")
        /\ (/\ Pc = 3 /\ EndsTerm(last)
            /\ buf' # <<>> /\ StartsExpression(Head(buf'))) => ~Continues]_vars

\* The latest step has opened a classVarDec or subroutineDec element without
\* consuming the keyword that starts such a declaration.
OpenedWithoutDeclaration ==
    \/ /\ EvIn(Ev("open", "classVarDec"), emit)
       /\ last \notin {Keyword("static"), Keyword("field")}
    \/ /\ EvIn(Ev("open", "subroutineDec"), emit)
       /\ last \notin {Keyword("constructor"), Keyword("function"), Keyword("method")}

\* C16: in a compile that succeeds every classVarDec element emitted is a
\* static/field declaration and every subroutineDec element a subroutine
\* declaration: after an element opened without its declaration compile does
\* not return success.
C16_ElementsAreDeclarations ==
    [](OpenedWithoutDeclaration => [](result # "ok"))

(***************************************************************************)
(* Characters and strings                                                  *)
(*                                                                         *)
(* A string is a sequence of characters and a character is a one-character *)
(* TLA+ string; "U+00E9" stands for the letter e-acute, which takes two    *)
(* bytes in UTF-8.  Lengths and indices are in bytes, as in Rust.          *)
(***************************************************************************)
Letters ==
    {"a", "b", "c", "d", "e", "f", "g", "h", "i", "j", "k", "l", "m", "n",
     "o", "p", "q", "r", "s", "t", "u", "v", "w", "x", "y", "z", "F", "U+00E9"}

Digits == {"0", "1", "2", "3", "4", "5", "6", "7", "8", "9"}

Whitespace == {" ", "\t", "\n", "\r"}

Char == Letters \cup Digits \cup Whitespace \cup Symbols \cup {"_", "\"", "#"}

\* char::is_alphabetic, ::is_digit(10), ::is_alphanumeric, ::is_whitespace
\* and ::len_utf8 on the characters above.
is_alphabetic(ch) == ch \in Letters
is_digit(ch) == ch \in Digits
is_alphanumeric(ch) == is_alphabetic(ch) \/ ch \in Digits
is_whitespace(ch) == ch \in Whitespace
len_utf8(ch) == IF ch = "U+00E9" THEN 2 ELSE 1

\* str::len
RECURSIVE str_len(_)
str_len(s) == IF s = <<>> THEN 0 ELSE len_utf8(Head(s)) + str_len(Tail(s))

\* The number of leading characters of s that make up its first n bytes.
CharsIn(s, n) == CHOOSE k \in 0..Len(s) : str_len(SubSeq(s, 1, k)) = n

\* &s[..n] and &s[n..]
SliceTo(s, n) == SubSeq(s, 1, CharsIn(s, n))
SliceFrom(s, n) == SubSeq(s, CharsIn(s, n) + 1, Len(s))

\* str::starts_with
starts_with(s, pattern) ==
    Len(s) >= Len(pattern) /\ SubSeq(s, 1, Len(pattern)) = pattern

(***************************************************************************)
(* Keywords and Symbols: text to variant and back.  A variant is named by  *)
(* the element of Keywords / Symbols that the engine's tokens carry.       *)
(***************************************************************************)
FromStrOk(v) == [ok |-> TRUE, v |-> v]
FromStrErr == [ok |-> FALSE, v |-> ""]

Keywords_from_str(s) ==
    CASE s = <<"c", "l", "a", "s", "s">> -> FromStrOk("class")
      [] s = <<"c", "o", "n", "s", "t", "r", "u", "c", "t", "o", "r">> -> FromStrOk("constructor")
      [] s = <<"f", "u", "n", "c", "t", "i", "o", "n">> -> FromStrOk("function")
      [] s = <<"m", "e", "t", "h", "o", "d">> -> FromStrOk("method")
      [] s = <<"f", "i", "e", "l", "d">> -> FromStrOk("field")
      [] s = <<"s", "t", "a", "t", "i", "c">> -> FromStrOk("static")
      [] s = <<"v", "a", "r">> -> FromStrOk("var")
      [] s = <<"i", "n", "t">> -> FromStrOk("int")
      [] s = <<"c", "h", "a", "r">> -> FromStrOk("char")
      [] s = <<"b", "o", "o", "l", "e", "a", "n">> -> FromStrOk("boolean")
      [] s = <<"v", "o", "i", "d">> -> FromStrOk("void")
      [] s = <<"t", "r", "u", "e">> -> FromStrOk("true")
      [] s = <<"f", "a", "l", "s", "e">> -> FromStrOk("false")
      [] s = <<"n", "u", "l", "l">> -> FromStrOk("null")
      [] s = <<"t", "h", "i", "s">> -> FromStrOk("this")
      [] s = <<"l", "e", "t">> -> FromStrOk("let")
      [] s = <<"d", "o">> -> FromStrOk("do")
      [] s = <<"i", "f">> -> FromStrOk("if")
      [] s = <<"e", "l", "s", "e">> -> FromStrOk("else")
      [] s = <<"w", "h", "i", "l", "e">> -> FromStrOk("while")
      [] s = <<"r", "e", "t", "u", "r", "n">> -> FromStrOk("return")
      [] OTHER -> FromStrErr

Keywords_to_string(k) ==
    CASE k = "class" -> <<"c", "l", "a", "s", "s">>
      [] k = "constructor" -> <<"c", "o", "n", "s", "t", "r", "u", "c", "t", "o", "r">>
      [] k = "function" -> <<"f", "u", "n", "c", "t", "i", "o", "n">>
      [] k = "method" -> <<"m", "e", "t", "h", "o", "d">>
      [] k = "field" -> <<"f", "i", "e", "l", "d">>
      [] k = "static" -> <<"s", "t", "a", "t", "i", "c">>
      [] k = "var" -> <<"v", "a", "r">>
      [] k = "int" -> <<"i", "n", "t">>
      [] k = "char" -> <<"c", "h", "a", "r">>
      [] k = "boolean" -> <<"b", "o", "o", "l", "e", "a", "n">>
      [] k = "void" -> <<"v", "o", "i", "d">>
      [] k = "true" -> <<"t", "r", "u", "e">>
      [] k = "false" -> <<"f", "a", "l", "s", "e">>
      [] k = "null" -> <<"n", "u", "l", "l">>
      [] k = "this" -> <<"t", "h", "i", "s">>
      [] k = "let" -> <<"l", "e", "t">>
      [] k = "do" -> <<"d", "o">>
      [] k = "if" -> <<"i", "f">>
      [] k = "else" -> <<"e", "l", "s", "e">>
      [] k = "while" -> <<"w", "h", "i", "l", "e">>
      [] k = "return" -> <<"r", "e", "t", "u", "r", "n">>

\* A slip: every one-character text is taken for a symbol.
Symbols_from_str_any_char(s) ==
    IF Len(s) = 1 THEN FromStrOk(s[1]) ELSE FromStrErr

Symbols_from_str(s) ==
    CASE s = <<"{">> -> FromStrOk("{")
      [] s = <<"}">> -> FromStrOk("}")
      [] s = <<"(">> -> FromStrOk("(")
      [] s = <<")">> -> FromStrOk(")")
      [] s = <<"[">> -> FromStrOk("[")
      [] s = <<"]">> -> FromStrOk("]")
      [] s = <<".">> -> FromStrOk(".")
      [] s = <<",">> -> FromStrOk(",")
      [] s = <<";">> -> FromStrOk(";")
      [] s = <<"+">> -> FromStrOk("+")
      [] s = <<"-">> -> FromStrOk("-")
      [] s = <<"*">> -> FromStrOk("*")
      [] s = <<"/">> -> FromStrOk("/")
      [] s = <<"&">> -> FromStrOk("&")
      [] s = <<"|">> -> FromStrOk("|")
      [] s = <<"<">> -> FromStrOk("<")
      [] s = <<">">> -> FromStrOk(">")
      [] s = <<"=">> -> FromStrOk("=")
      [] s = <<"~">> -> FromStrOk("~")
      [] OTHER -> FromStrErr

Symbols_to_string(k) ==
    CASE k = "{" -> <<"{">>
      [] k = "}" -> <<"}">>
      [] k = "(" -> <<"(">>
      [] k = ")" -> <<")">>
      [] k = "[" -> <<"[">>
      [] k = "]" -> <<"]">>
      [] k = "." -> <<".">>
      [] k = "," -> <<",">>
      [] k = ";" -> <<";">>
      [] k = "+" -> <<"+">>
      [] k = "-" -> <<"-">>
      [] k = "*" -> <<"*">>
      [] k = "/" -> <<"/">>
      [] k = "&" -> <<"&">>
      [] k = "|" -> <<"|">>
      [] k = "<" -> <<"<">>
      [] k = ">" -> <<">">>
      [] k = "=" -> <<"=">>
      [] k = "~" -> <<"~">>

(***************************************************************************)
(* The functions of StreamTokenizer                                        *)
(***************************************************************************)
\* Result<(Token, usize)>: the token and the number of bytes read.
Ok(tok, n) == [ok |-> TRUE, tok |-> tok, len |-> n, err |-> ""]
Err(msg) == [ok |-> FALSE, tok |-> NoToken, len |-> 0, err |-> msg]

\* The states of a predicate closure (the counter `quotes` of
\* tokenize_string_literal; the other closures have no state).
ClosureStates == 0..2

\* take_while: pred[st, ch] is what the closure returns on ch in state st,
\* and the state it is in afterwards.
RECURSIVE take_while_loop(_, _, _, _, _)
take_while_loop(data, pred, i, st, index) ==
    IF i > Len(data) THEN index
    ELSE LET should_continue == pred[st, data[i]]
         IN IF ~should_continue.go THEN index
            ELSE take_while_loop(data, pred, i + 1, should_continue.st,
                                 index + len_utf8(data[i]))

take_while(data, pred) ==
    LET index == take_while_loop(data, pred, 1, 0, 0)
    IN IF index = 0
       THEN [ok |-> FALSE, got |-> <<>>, len |-> 0]
       ELSE [ok |-> TRUE, got |-> SliceTo(data, index), len |-> index]

\* |ch| ch == '_' || ch.is_alphanumeric()
IdentifierChar ==
    [st \in ClosureStates, ch \in Char |->
        [go |-> ch = "_" \/ is_alphanumeric(ch), st |-> st]]

\* |c| if c.is_digit(10) { true } else { false }
DigitChar ==
    [st \in ClosureStates, ch \in Char |-> [go |-> is_digit(ch), st |-> st]]

\* |ch| ch.is_whitespace()
WhitespaceChar ==
    [st \in ClosureStates, ch \in Char |-> [go |-> is_whitespace(ch), st |-> st]]

\* The closure of tokenize_string_literal, st being `quotes`.
QuotedChar ==
    [st \in ClosureStates, ch \in Char |->
        IF st >= 2 THEN [go |-> FALSE, st |-> st]
        ELSE [go |-> TRUE, st |-> IF ch = "\"" THEN st + 1 ELSE st]]

\* A slip: a run that only starts with a keyword's text is that keyword.
tokenize_keyword_by_prefix(data) ==
    IF data = <<>> THEN Err("EOF")
    ELSE IF is_digit(Head(data)) THEN Err("Identifiers can't start with a number")
    ELSE LET t == take_while(data, IdentifierChar)
             K == {k \in Keywords : starts_with(t.got, Keywords_to_string(k))}
         IN IF ~t.ok THEN Err("No Matches")
            ELSE IF K # {}
                 THEN Ok(Keyword(CHOOSE k \in K : TRUE), t.len)
                 ELSE Ok(Identifier(t.got), t.len)

tokenize_ident_or_keyword(data) ==
    IF data = <<>> THEN Err("EOF")
    ELSE IF is_digit(Head(data)) THEN Err("Identifiers can't start with a number")
    ELSE LET t == take_while(data, IdentifierChar)
         IN IF ~t.ok THEN Err("No Matches")
            ELSE IF Keywords_from_str(t.got).ok
                 THEN Ok(Keyword(Keywords_from_str(t.got).v), t.len)
                 ELSE Ok(Identifier(t.got), t.len)

\* The largest i16.
I16Max == 32767

DigitValue(ch) ==
    CASE ch = "0" -> 0 [] ch = "1" -> 1 [] ch = "2" -> 2 [] ch = "3" -> 3
      [] ch = "4" -> 4 [] ch = "5" -> 5 [] ch = "6" -> 6 [] ch = "7" -> 7
      [] ch = "8" -> 8 [] ch = "9" -> 9

\* The number a run of digits denotes.
RECURSIVE DecimalValue(_)
DecimalValue(digit) ==
    IF digit = <<>> THEN 0
    ELSE DecimalValue(SubSeq(digit, 1, Len(digit) - 1)) * 10
            + DigitValue(digit[Len(digit)])

\* A slip: the value is reduced to 16 bits instead of being checked.
parse_i16_wrapping(digit) ==
    LET w == DecimalValue(digit) % 65536
    IN [ok |-> TRUE, v |-> IF w > I16Max THEN w - 65536 ELSE w]

\* str::parse::<i16> on a non-empty run of digits: digit by digit with
\* checked_mul and checked_add, an overflow being Err(PosOverflow).
RECURSIVE parse_i16_loop(_, _, _)
parse_i16_loop(digit, i, n) ==
    IF i > Len(digit) THEN [ok |-> TRUE, v |-> n]
    ELSE LET mul == n * 10
             add == mul + DigitValue(digit[i])
         IN IF mul > I16Max \/ add > I16Max
            THEN [ok |-> FALSE, v |-> 0]
            ELSE parse_i16_loop(digit, i + 1, add)

parse_i16(digit) == parse_i16_loop(digit, 1, 0)

tokenize_digit(data) ==
    LET t == take_while(data, DigitChar)
    IN IF ~t.ok THEN Err("No Matches")
       ELSE LET n == parse_i16(t.got)
            IN IF ~n.ok THEN Err("number too large to fit in target type")
               ELSE Ok(IntConst(n.v), t.len)

NotQuote(ch) == ch # "\""

\* A slip: the quotes are left in the value of the literal.
tokenize_string_literal_with_quotes(data) ==
    IF data = <<>> \/ Head(data) # "\"" THEN Err("Invalid string literal")
    ELSE LET t == take_while(data, QuotedChar)
         IN IF ~t.ok THEN Err("No Matches")
            ELSE Ok(StringConst(t.got), t.len)

tokenize_string_literal(data) ==
    IF data = <<>> \/ Head(data) # "\"" THEN Err("Invalid string literal")
    ELSE LET t == take_while(data, QuotedChar)
         IN IF ~t.ok THEN Err("No Matches")
            ELSE Ok(StringConst(SelectSeq(t.got, NotQuote)), t.len)

\* The arm `c @ '_' | c if c.is_alphabetic()`: the pattern matches every
\* character and the guard belongs to the whole arm, both alternatives.
IdentifierArm(c) == (c = "_" \/ TRUE) /\ is_alphabetic(c)

tokenize_single_token(data) ==
    IF data = <<>> THEN Err("EOF")
    ELSE LET c == Head(data)
         IN IF Symbols_from_str(<<c>>).ok
            THEN Ok(Symbol(Symbols_from_str(<<c>>).v), 1)
            ELSE IF is_digit(c) THEN tokenize_digit(data)
            ELSE IF c = "\"" THEN tokenize_string_literal(data)
            ELSE IF IdentifierArm(c) THEN tokenize_ident_or_keyword(data)
            ELSE Err("unknown character")

\* usize results of the skipping functions; ok = FALSE is a panic.
Skipped(n) == [ok |-> TRUE, n |-> n]
SkipPanic == [ok |-> FALSE, n |-> 0]

skip_whitespace_bytes(data) ==
    LET t == take_while(data, WhitespaceChar)
    IN IF t.ok THEN t.len ELSE 0

\* skip_until returns the text after the first occurrence of pattern; when
\* there is none, `&src[pattern.len()..]` is out of range on the empty rest.
RECURSIVE skip_until(_, _)
skip_until(src, pattern) ==
    IF src # <<>> /\ ~starts_with(src, pattern)
    THEN skip_until(Tail(src), pattern)
    ELSE IF str_len(src) < str_len(pattern)
         THEN [ok |-> FALSE, rest |-> <<>>]
         ELSE [ok |-> TRUE, rest |-> SliceFrom(src, str_len(pattern))]

\* A slip: the terminator of the comment is left in the text.
skip_comments_before_terminator(src) ==
    LET skipped(leftovers, matcher) ==
            IF leftovers.ok
            THEN Skipped(str_len(src) - str_len(leftovers.rest) - str_len(matcher))
            ELSE SkipPanic
    IN IF starts_with(src, <<"/", "/">>)
       THEN skipped(skip_until(src, <<"\n">>), <<"\n">>)
       ELSE IF starts_with(src, <<"/", "*">>)
            THEN skipped(skip_until(src, <<"*", "/">>), <<"*", "/">>)
            ELSE Skipped(0)

skip_comments(src) ==
    LET skipped(leftovers) ==
            IF leftovers.ok THEN Skipped(str_len(src) - str_len(leftovers.rest))
            ELSE SkipPanic
    IN IF starts_with(src, <<"/", "/">>) THEN skipped(skip_until(src, <<"\n">>))
       ELSE IF starts_with(src, <<"/", "*">>)
            THEN skipped(skip_until(src, <<"*", "/">>))
            ELSE Skipped(0)

RECURSIVE skip_loop(_, _)
skip_loop(src, remaining) ==
    LET ws == skip_whitespace_bytes(remaining)
        after_ws == SliceFrom(remaining, ws)
        comments == skip_comments(after_ws)
    IN IF ~comments.ok THEN SkipPanic
       ELSE IF ws + comments.n = 0
            THEN Skipped(str_len(src) - str_len(after_ws))
            ELSE skip_loop(src, SliceFrom(after_ws, comments.n))

skip(src) == skip_loop(src, src)

(***************************************************************************)
(* The tokenizer object                                                    *)
(***************************************************************************)
\* The cap of Iterator::next on iter_times.
IterCap == 1000

\* The thread panicked inside the call of Iterator::next.
Panicked == [k |-> "panic", v |-> ""]

HasPanicked == ret.fn = "next" /\ ret.val.k = "panic"

Self ==
    [remaining_text |-> remaining_text, current_index |-> current_index,
     iter_times |-> iter_times]

\* A slip: the index counts characters, not bytes.
chomp_counting_chars(self, num_bytes) ==
    [self EXCEPT !.remaining_text = SliceFrom(@, num_bytes),
                 !.current_index = @ + CharsIn(self.remaining_text, num_bytes)]

chomp(self, num_bytes) ==
    [self EXCEPT !.remaining_text = SliceFrom(@, num_bytes),
                 !.current_index = @ + num_bytes]

\* next_token: the tokenizer afterwards and the Result, as an iterator item.
next_token(self) ==
    LET r == tokenize_single_token(self.remaining_text)
    IN IF r.ok THEN [self |-> chomp(self, r.len), val |-> r.tok]
       ELSE [self |-> self, val |-> SomeErr]

\* A slip: the stream ends only where the text ends, there is no cap.
IteratorNextWithoutCap(self0) ==
    LET self == [self0 EXCEPT !.iter_times = @ + 1]
    IN IF self.remaining_text = <<>>
       THEN [self |-> self, val |-> NoneItem]
       ELSE next_token(self)

\* Iterator::next after skip_whitespace has returned.
IteratorNextAfterSkip(self0) ==
    LET self == [self0 EXCEPT !.iter_times = @ + 1]
    IN IF self.remaining_text = <<>> \/ self.iter_times >= IterCap
       THEN [self |-> self, val |-> NoneItem]
       ELSE next_token(self)

\* Number of calls of Iterator::next considered on one tokenizer, from
\* where it is first observed: newly constructed, or NearCap calls later.
MaxCalls == 6

NearCap == IterCap - MaxCalls \div 2

CallsMade == IF iter_times >= NearCap THEN iter_times - NearCap ELSE iter_times

\* <StreamTokenizer as Iterator>::next.  ret.arg is the text left after
\* skip_whitespace, where the token starts (the whole text when skipping
\* panics).
Iterator_next ==
    /\ ~HasPanicked
    /\ CallsMade < MaxCalls
    /\ LET skipped == skip(remaining_text)
       IN IF ~skipped.ok
          THEN /\ ret' = [fn |-> "next", arg |-> remaining_text, val |-> Panicked]
               /\ UNCHANGED <<remaining_text, current_index, iter_times, items>>
          ELSE LET after == chomp(Self, skipped.n)
                   r == IteratorNextAfterSkip(after)
               IN /\ remaining_text' = r.self.remaining_text
                  /\ current_index' = r.self.current_index
                  /\ iter_times' = r.self.iter_times
                  /\ items' = IF r.val.k = "None" THEN items ELSE items + 1
                  /\ ret' = [fn |-> "next", arg |-> after.remaining_text,
                             val |-> r.val]
    /\ UNCHANGED <<stack, buf, cursor, yielded, mode, open, wellNested, emit,
                   result, error, dropped, last, source>>

\* The associated functions, which the unit tests call directly.
Functions ==
    {"Keywords::from_str", "Symbols::from_str", "tokenize_ident_or_keyword",
     "tokenize_digit", "tokenize_string_literal", "tokenize_single_token",
     "skip_comments", "skip"}

Apply(f, data) ==
    CASE f = "Keywords::from_str" -> Keywords_from_str(data)
      [] f = "Symbols::from_str" -> Symbols_from_str(data)
      [] f = "tokenize_ident_or_keyword" -> tokenize_ident_or_keyword(data)
      [] f = "tokenize_digit" -> tokenize_digit(data)
      [] f = "tokenize_string_literal" -> tokenize_string_literal(data)
      [] f = "tokenize_single_token" -> tokenize_single_token(data)
      [] f = "skip_comments" -> skip_comments(data)
      [] f = "skip" -> skip(data)

\* A direct call of one of the functions on the text of a source, none of
\* which has been consumed.
DirectCall ==
    /\ ~HasPanicked
    /\ remaining_text = source
    /\ \E f \in Functions :
        ret' = [fn |-> f, arg |-> remaining_text, val |-> Apply(f, remaining_text)]
    /\ UNCHANGED <<remaining_text, current_index, iter_times, items>>
    /\ UNCHANGED <<stack, buf, cursor, yielded, mode, open, wellNested, emit,
                   result, error, dropped, last, source>>

(***************************************************************************)
(* The sources                                                             *)
(***************************************************************************)
\* Every text of at most MaxLen characters over Alphabet or over
\* TriviaAlphabet, and the texts below: the keywords and symbols, and texts
\* around the limits.
MaxLen == 4

Alphabet == {"i", "f", "_", "1", " ", ";"}

TriviaAlphabet == {"/", "*", "\n", " ", "x"}

Texts ==
    UNION {[1..n -> Alphabet] \cup [1..n -> TriviaAlphabet] : n \in 0..MaxLen}

Samples ==
    {<<"c", "l", "a", "s", "s">>,
     <<"c", "l", "a", "s", "s", "i", "f", "i", "e", "r">>,
     <<"c", "l", "a", "s", "s", " ", "F">>,
     <<"F", "o", "o", "_", "b", "a", "r">>,
     <<"7", "F", "o", "o">>,
     <<"U+00E9", "1", ";">>,
     <<"d", "o", "U+00E9">>,
     <<"_", "x">>,
     <<"0">>, <<"0", "0", "7">>,
     <<"3", "2", "7", "6", "7">>, <<"3", "2", "7", "6", "8">>,
     <<"0", "3", "2", "7", "6", "7", ";">>,
     <<"6", "5", "5", "3", "5">>, <<"6", "5", "5", "3", "6">>,
     <<"6", "5", "5", "3", "7", "x">>,
     <<"9", "9", "9", "9", "9">>, <<"1", "0", "0", "0", "0", "0">>,
     <<"\"", "a", " ", "b", "\"", ";">>, <<"\"", "a">>,
     <<"\"", "\"">>, <<"\"">>, <<"\"", "U+00E9", "\"", "\"", "x", "\"">>,
     <<"\"", "/", "/", "\"", "\n">>, <<"\"", "i", "f", "\n">>,
     <<"#">>, <<"\n", "\t", "x", "\r">>,
     <<"/", "1">>, <<"/", "/", "i", "\n", "1">>, <<"/", "/", "i">>,
     <<"/", "*", "i", "*", "/", "1">>, <<"/", "*", "i">>, <<"/", "*", "/">>,
     <<"/", "*", "/", " ", "x", " ", "*", "/">>,
     <<"/", "*", "*", " ", "x", " ", "*", "/", "1", "2">>,
     <<"/", "/", " ", "x", "\r", "\n", "1", "2">>,
     <<" ", "/", "/", "x", "\n">>, <<"\n", "/", "*", "x", "*", "/">>,
     <<"/", "/", "U+00E9", "\n", "/", "/", "\n", "x">>,
     <<"/", "*", "U+00E9", "*", "*", "/", "*", "/">>,
     <<"x", " ", "/", "*">>, <<"x", "/", "/">>,
     <<";", ";", ";", ";">>, <<"i", "f", " ", "1", ";", "x">>,
     <<"#", "#">>, <<"3", "2", "7", "6", "8", ";">>}

Sources ==
    Texts \cup Samples
        \cup {Keywords_to_string(k) : k \in Keywords}
        \cup {Symbols_to_string(s) : s \in Symbols}

(***************************************************************************)
(* The specification of the tokenizer                                      *)
(***************************************************************************)
\* StreamTokenizer::new on a source; or the tokenizer of a source that
\* starts with NearCap semicolons, after the NearCap calls of Iterator::next
\* that have yielded them.  The engine is not running.
LexInit ==
    /\ EngineInit
    /\ \/ /\ source \in Sources
          /\ remaining_text = source
          /\ current_index = 0
          /\ iter_times = 0
          /\ items = 0
          /\ ret = NoCall
       \/ /\ remaining_text \in Samples
          /\ source = [i \in 1..NearCap |-> ";"] \o remaining_text
          /\ current_index = NearCap
          /\ iter_times = NearCap
          /\ items = NearCap
          /\ ret = [fn |-> "next", arg |-> <<";">> \o remaining_text,
                    val |-> Symbol(";")]

LexNext ==
    \/ Iterator_next
    \/ DirectCall

Lexer == LexInit /\ [][LexNext]_vars

(***************************************************************************)
(* Properties of the tokenizer                                             *)
(***************************************************************************)
\* The call whose result ret holds was made on the text `data`.
Called(f) == ret.fn = f

\* The maximal leading run of characters of data that are in the set C.
Run(data, C) ==
    LET n == CHOOSE n \in 0..Len(data) :
                /\ \A i \in 1..n : data[i] \in C
                /\ n = Len(data) \/ data[n + 1] \notin C
    IN SubSeq(data, 1, n)

IdentifierChars == {ch \in Char : ch = "_" \/ is_alphanumeric(ch)}

\* C17: parsing the canonical text of a keyword (of a symbol) gives that
\* keyword (symbol) back, and every text that is not the canonical text of a
\* keyword (symbol) is rejected by Keywords::from_str (Symbols::from_str).
C17_RoundTrip ==
    /\ Called("Keywords::from_str") =>
        /\ \A k \in Keywords :
                Keywords_to_string(k) = ret.arg => ret.val = FromStrOk(k)
        /\ (\A k \in Keywords : Keywords_to_string(k) # ret.arg)
                => ret.val = FromStrErr
    /\ Called("Symbols::from_str") =>
        /\ \A y \in Symbols :
                Symbols_to_string(y) = ret.arg => ret.val = FromStrOk(y)
        /\ (\A y \in Symbols : Symbols_to_string(y) # ret.arg)
                => ret.val = FromStrErr

\* A keyword has come back from its text, the last of the table.
C17_Witness ==
    /\ Called("Keywords::from_str")
    /\ ret.arg = Keywords_to_string("return")
    /\ ret.val = FromStrOk("return")

\* C18: on a text that starts with a letter or an underscore,
\* tokenize_ident_or_keyword reads the maximal leading run of alphanumeric
\* and underscore characters, its length in bytes, and yields a Keyword
\* exactly when the whole run is a keyword's text, otherwise an Identifier
\* holding the whole run.
C18_IdentOrKeyword ==
    (/\ Called("tokenize_ident_or_keyword")
     /\ ret.arg # <<>>
     /\ (ret.arg[1] = "_" \/ is_alphabetic(ret.arg[1]))) =>
        LET run == Run(ret.arg, IdentifierChars)
        IN /\ ret.val.ok
           /\ ret.val.len = str_len(run)
           /\ IF \E k \in Keywords : Keywords_to_string(k) = run
              THEN /\ ret.val.tok.k = "Keyword"
                   /\ Keywords_to_string(ret.val.tok.v) = run
              ELSE /\ ret.val.tok.k = "Identifier"
                   /\ ret.val.tok.v = run

\* `classifier` has been read as one identifier of 10 bytes.
C18_Witness ==
    /\ Called("tokenize_ident_or_keyword")
    /\ ret.arg = <<"c", "l", "a", "s", "s", "i", "f", "i", "e", "r">>
    /\ ret.val.ok
    /\ ret.val.tok.k = "Identifier"
    /\ ret.val.len = 10

\* C19: when the text starts with an underscore the tokenizer yields an
\* Identifier holding the maximal run of alphanumeric and underscore
\* characters, from tokenize_single_token and from Iterator::next.
C19_UnderscoreStartsIdentifier ==
    /\ (Called("tokenize_single_token") /\ ret.arg # <<>> /\ ret.arg[1] = "_") =>
            /\ ret.val.ok
            /\ ret.val.tok.k = "Identifier"
            /\ ret.val.tok.v = Run(ret.arg, IdentifierChars)
            /\ ret.val.len = str_len(Run(ret.arg, IdentifierChars))
    /\ (Called("next") /\ ret.arg # <<>> /\ ret.arg[1] = "_") =>
            /\ ret.val.k = "Identifier"
            /\ ret.val.v = Run(ret.arg, IdentifierChars)

\* C20: on a text that starts with a digit the integer literal is the
\* maximal run of decimal digits: IntConst of the number the run denotes when
\* that is at most 32767, and otherwise an error, never another number
\* (from Iterator::next too, in the calls that come before its cap).
C20_IntegerLiteral ==
    /\ (/\ Called("tokenize_digit") \/ Called("tokenize_single_token")
        /\ ret.arg # <<>>
        /\ is_digit(ret.arg[1])) =>
            LET run == Run(ret.arg, Digits)
            IN IF DecimalValue(run) <= 32767
               THEN /\ ret.val.ok
                    /\ ret.val.tok.k = "IntConst"
                    /\ ret.val.tok.v = DecimalValue(run)
                    /\ ret.val.len = Len(run)
               ELSE ~ret.val.ok
    /\ (/\ Called("next")
        /\ iter_times < IterCap
        /\ ret.arg # <<>>
        /\ is_digit(ret.arg[1])) =>
            IF DecimalValue(Run(ret.arg, Digits)) <= 32767
            THEN /\ ret.val.k = "IntConst"
                 /\ ret.val.v = DecimalValue(Run(ret.arg, Digits))
            ELSE ret.val.k = "Err"

\* 32768, the first number out of range, has been refused.
C20_Witness ==
    /\ Called("tokenize_digit")
    /\ ret.arg = <<"3", "2", "7", "6", "8">>
    /\ ~ret.val.ok

(***************************************************************************)
(* String literals                                                         *)
(***************************************************************************)
\* The text starts with a quote / the position of the next quote after it.
StartsWithQuote(data) == data # <<>> /\ data[1] = "\""

HasClosingQuote(data) == \E i \in 2..Len(data) : data[i] = "\""

ClosingQuote(data) ==
    CHOOSE i \in 2..Len(data) :
        data[i] = "\"" /\ \A j \in 2..(i - 1) : data[j] # "\""

\* C21: on a text that starts with a quote and holds a second one,
\* tokenize_string_literal yields StringConst of exactly the text between
\* the two quotes and reads exactly the bytes through the closing quote,
\* whatever follows it; the same through tokenize_single_token.
C21_StringLiteral ==
    (/\ Called("tokenize_string_literal") \/ Called("tokenize_single_token")
     /\ StartsWithQuote(ret.arg)
     /\ HasClosingQuote(ret.arg)) =>
        LET closing == ClosingQuote(ret.arg)
        IN /\ ret.val.ok
           /\ ret.val.tok.k = "StringConst"
           /\ ret.val.tok.v = SubSeq(ret.arg, 2, closing - 1)
           /\ ret.val.len = str_len(SubSeq(ret.arg, 1, closing))

\* The literal "a b" has been read from the text `"a b";`, 5 bytes of it.
C21_Witness ==
    /\ Called("tokenize_string_literal")
    /\ ret.arg = <<"\"", "a", " ", "b", "\"", ";">>
    /\ ret.val.ok
    /\ ret.val.tok = StringConst(<<"a", " ", "b">>)
    /\ ret.val.len = 5

\* C22: a text that starts with a quote and holds no second quote is a
\* lexical error: tokenize_string_literal and tokenize_single_token return
\* Err, and Iterator::next yields Some(Err), never a StringConst.
C22_UnterminatedString ==
    /\ (/\ Called("tokenize_string_literal") \/ Called("tokenize_single_token")
        /\ StartsWithQuote(ret.arg)
        /\ ~HasClosingQuote(ret.arg)) => ~ret.val.ok
    /\ (/\ Called("next")
        /\ StartsWithQuote(ret.arg)
        /\ ~HasClosingQuote(ret.arg)) => ret.val.k = "Err"

(***************************************************************************)
(* Comments                                                                *)
(***************************************************************************)
\* The pattern occurs in data at character i / at or after character from /
\* the first such place.
OccursAt(data, pattern, i) ==
    /\ i + Len(pattern) - 1 <= Len(data)
    /\ SubSeq(data, i, i + Len(pattern) - 1) = pattern

Occurs(data, pattern, from) ==
    \E i \in from..Len(data) : OccursAt(data, pattern, i)

FirstAt(data, pattern, from) ==
    CHOOSE i \in from..Len(data) :
        /\ OccursAt(data, pattern, i)
        /\ \A j \in from..(i - 1) : ~OccursAt(data, pattern, j)

LineComment == <<"/", "/">>
BlockComment == <<"/", "*">>
EndOfLine == <<"\n">>
EndOfBlock == <<"*", "/">>

\* C23: skip_comments returns, on a text that starts with `//` and holds a
\* line feed, the bytes up to and including the first line feed; on a text
\* that starts with `/*` and holds a `*/` later than its start, the bytes
\* through the first such `*/`; and 0 on a text that starts with neither,
\* white space before a comment included.
C23_SkipComments ==
    Called("skip_comments") =>
        /\ (starts_with(ret.arg, LineComment) /\ Occurs(ret.arg, EndOfLine, 1)) =>
                /\ ret.val.ok
                /\ ret.val.n =
                        str_len(SubSeq(ret.arg, 1, FirstAt(ret.arg, EndOfLine, 1)))
        /\ (starts_with(ret.arg, BlockComment) /\ Occurs(ret.arg, EndOfBlock, 2)) =>
                /\ ret.val.ok
                /\ ret.val.n =
                        str_len(SubSeq(ret.arg, 1, FirstAt(ret.arg, EndOfBlock, 2) + 1))
        /\ (~starts_with(ret.arg, LineComment)
                /\ ~starts_with(ret.arg, BlockComment)) =>
                /\ ret.val.ok
                /\ ret.val.n = 0

\* The comment of `/** x */12` has been measured: 8 bytes, 12 left.
C23_Witness ==
    /\ Called("skip_comments")
    /\ ret.arg = <<"/", "*", "*", " ", "x", " ", "*", "/", "1", "2">>
    /\ ret.val.ok
    /\ ret.val.n = 8

\* A comment that the rest of the text does not end.
Unterminated(data) ==
    \/ starts_with(data, LineComment) /\ ~Occurs(data, EndOfLine, 1)
    \/ starts_with(data, BlockComment) /\ ~Occurs(data, EndOfBlock, 2)

\* C24: a comment with no terminator before the end of the input is trivia:
\* skip_comments and skip return the length of the whole text, and
\* Iterator::next never terminates abnormally.
C24_UnterminatedComment ==
    /\ (/\ Called("skip_comments") \/ Called("skip")
        /\ Unterminated(ret.arg)) =>
            /\ ret.val.ok
            /\ ret.val.n = str_len(ret.arg)
    /\ ~HasPanicked

\* C28: a block comment ends at the first `*/` that begins after the two
\* characters of its `/*`: skip_comments returns the bytes through that
\* `*/`, and skip at least as many.
C28_BlockCommentEnd ==
    (/\ Called("skip_comments") \/ Called("skip")
     /\ starts_with(ret.arg, BlockComment)
     /\ Occurs(ret.arg, EndOfBlock, 3)) =>
        LET through ==
                str_len(SubSeq(ret.arg, 1, FirstAt(ret.arg, EndOfBlock, 3) + 1))
        IN /\ ret.val.ok
           /\ Called("skip_comments") => ret.val.n = through
           /\ Called("skip") => ret.val.n >= through

(***************************************************************************)
(* The stream of items                                                     *)
(***************************************************************************)
\* The byte length of the source: chomp moves bytes from remaining_text to
\* current_index and nothing else changes either.
SourceLen == current_index + str_len(remaining_text)

\* C25: the tokenizer yields at most as many items, tokens and lexical
\* errors together, as its source has bytes.
C25_ItemsBoundedByBytes == items <= SourceLen

\* C26: the stream ends at the cap: fewer than IterCap items are ever
\* yielded, and every call of Iterator::next from the one that brings
\* iter_times to IterCap on returns None, whatever text remains.
C26_CapEndsStream ==
    /\ items < IterCap
    /\ (Called("next") /\ iter_times >= IterCap) => ret.val.k = "None"

\* The tokenizer is stuck on a character it cannot classify, and the call
\* after the cap has returned None.
C26_Witness ==
    /\ Called("next")
    /\ iter_times = IterCap + 1
    /\ remaining_text = <<"#">>
    /\ items = IterCap - 1
    /\ ret.val.k = "None"

\* The text holds tokens and white space only, no lexical error: none by
\* tokenize_single_token, and no quote, underscore, slash or other
\* character on which the functions above have been found to go wrong.
RECURSIVE WellFormed(_)
WellFormed(text) ==
    /\ \A i \in 1..Len(text) : text[i] \notin {"\"", "_", "/", "#"}
    /\ LET rest == SliceFrom(text, skip_whitespace_bytes(text))
           r == tokenize_single_token(rest)
       IN rest = <<>> \/ (r.ok /\ WellFormed(SliceFrom(rest, r.len)))

\* C27: on a source without lexical errors the stream ends only when no
\* characters remain after trivia: when Iterator::next returns None and what
\* remains is well-formed text, nothing remains.
C27_CapNeverTruncates ==
    (Called("next") /\ ret.val.k = "None" /\ WellFormed(remaining_text)) =>
        remaining_text = <<>>

(***************************************************************************)
(* Terminals in term position                                              *)
(***************************************************************************)
KeywordConstants == {"true", "false", "null", "this"}

\* The element a terminal of the given text is written as.
TerminalKind(text) ==
    CASE text \in Keywords -> "keyword"
      [] text \in Symbols -> "symbol"
      [] text = Identifier("x").v -> "identifier"
      [] text = IntConst("1").v -> "integerConstant"
      [] OTHER -> "stringConstant"

\* Every text among the events s stands between the opening and the closing
\* tag of its terminal kind.
Tagged(s) ==
    \A i \in 1..Len(s) :
        s[i].t = "text" =>
            /\ 1 < i /\ i < Len(s)
            /\ s[i - 1] = Ev("open", TerminalKind(s[i].v))
            /\ s[i + 1] = Ev("close", TerminalKind(s[i].v))

\* C29: no successful parse has written a terminal without the tags of its
\* kind; in particular a keyword constant in a term is a keyword element.
C29_TerminalsTagged == [](~Tagged(emit) => [](result # "ok"))

\* C30: only true, false, null and this are keywords of a term: when
\* write_term finds any other keyword the term fails, it is not closed.
C30_TermKeywords ==
    [][(/\ At("write_term") /\ Pc = 1
        /\ Looked'.k = "Keyword"
        /\ Looked'.v \notin KeywordConstants) =>
            ~EvIn(Ev("close", "term"), emit')]_vars

(***************************************************************************)
(* The engine and its token stream                                         *)
(***************************************************************************)
\* C31: when compile returns success the token stream is exhausted: the
\* tokenizer has returned None to the engine and no token waits in the
\* queue, so nothing follows the closing brace of the class.
C31_StreamExhaustedOnSuccess ==
    result = "ok" =>
        /\ mode = "ended"
        /\ \A i \in 1..Len(buf) : ~IsToken(buf[i])

(***************************************************************************)
(* The state of the tokenizer                                              *)
(***************************************************************************)
\* The length of a text in bytes, counted without recursion (a source can
\* be a thousand characters long): a character takes one byte or two.
Bytes(text) ==
    Len(text) + Cardinality({i \in 1..Len(text) : len_utf8(text[i]) = 2})

\* text is what is left of whole when its first n bytes are removed.
IsSuffixAfter(text, whole, n) ==
    /\ Len(text) <= Len(whole)
    /\ text = SubSeq(whole, Len(whole) - Len(text) + 1, Len(whole))
    /\ n = Bytes(SubSeq(whole, 1, Len(whole) - Len(text)))

\* C32: in every state of a tokenizer remaining_text is a suffix of the
\* source and current_index is the number of bytes removed before it, so
\* that current_index + the length of remaining_text = the length of the
\* source; and current_index never decreases.
C32_SuffixAndIndex ==
    /\ [](/\ IsSuffixAfter(remaining_text, source, current_index)
          /\ current_index + Bytes(remaining_text) = Bytes(source))
    /\ [][current_index' >= current_index]_vars

\* The identifier `do` + e-acute, four bytes in three characters, has been
\* taken from the source.
C32_Witness ==
    /\ source = <<"d", "o", "U+00E9">>
    /\ remaining_text = <<>>
    /\ current_index = 4
    /\ Called("next")

ConsumedUnwritten(e) ==
    /\ e.kind = "syntax"
    /\ e.site \in {"write_keyword", "write_symbol", "write_identifier",
                    "write_operator", "write_keyword_constant"}

\* The step has taken a token from the queue.
Took ==
    \/ Len(buf') < Len(buf)
    \/ Len(buf') = Len(buf) /\ yielded' > yielded

\* The texts among the events s.
Texts_of(s) == SelectSeq(s, LAMBDA e : e.t = "text")

\* C34: the terminals written are the tokens consumed, in their order: a
\* step writes at most one text, that of the token it has just consumed,
\* and on a successful compile no token has been consumed without being
\* written.
C34_EmittedIsConsumed ==
    /\ [][Texts_of(emit') # <<>> =>
            /\ Took
            /\ Texts_of(emit') = <<Ev("text", last'.v)>>]_vars
    /\ [](result = "ok" => \A e \in dropped : ~ConsumedUnwritten(e))

====
